---- MODULE Spec2Model ----
(***************************************************************************)
(* Model of vulkano's raw "update buffer" command:                         *)
(*   src/vulkano/src/command_buffer/commands_raw/update_buffer.rs          *)
(*                                                                         *)
(* A CmdUpdateBuffer is built by one of three constructors (new,           *)
(* from_access, unchecked_type), which validate the buffer's usage flag,   *)
(* offset alignment, size alignment and size cap, and is later injected    *)
(* with AddCommand::add into an UnsafeCommandBufferBuilder, which performs *)
(* the native vkCmdUpdateBuffer call.                                      *)
(*                                                                         *)
(* The trait bounds of the constructors (TypedBuffer<Content = D>, ...)    *)
(* are discharged by the compiler and have no run-time behaviour; they are *)
(* not part of the state machine.  The native call is modelled by the      *)
(* arguments it is handed: the driver's read of the payload pointer is     *)
(* outside this file.                                                      *)
(***************************************************************************)
EXTENDS Integers, Sequences, FiniteSets

VARIABLES
    cmds,       \* the CmdUpdateBuffer values that exist, in construction order
    streams,    \* per builder: the native calls recorded so far, in order
    ret,        \* what the most recent call returned
    args        \* the arguments of a single constructor call under test

vars == <<cmds, streams, ret, args>>

----------------------------------------------------------------------------
(* Bounds of the model *)

\* how many commands a behaviour constructs
MaxCmds == 2
\* how many native calls a behaviour records, over all builders
MaxRecords == 2

(* Constants of the program *)

\* offset % 4 and size % 4
Alignment == 4
\* size > 65536
MaxUpdateSize == 65536

----------------------------------------------------------------------------
(* The collaborators' values the operations are exercised on *)

\* UnsafeBuffer as seen through BufferInner.buffer: its raw handle
\* (internal_object) and its transfer-destination usage flag.
InnerBuffers ==
    { [internal_object |-> 1, usage_transfer_dest |-> TRUE],
      [internal_object |-> 2, usage_transfer_dest |-> FALSE] }

\* byte offsets of a buffer inside its UnsafeBuffer
Offsets == {0, 2, 4}

\* byte sizes of a buffer: aligned and small, misaligned, exactly the cap,
\* misaligned above the cap, aligned above the cap
Sizes == {6, 64, MaxUpdateSize, MaxUpdateSize + 1, MaxUpdateSize + 4}

\* a BufferAccess: what size() and inner() report
BufferAccesses ==
    { [size |-> s, inner |-> [buffer |-> ib, offset |-> o]] :
        s \in Sizes, ib \in InnerBuffers, o \in Offsets }

\* a Buffer (the typed, higher-level object `new` takes): it yields its
\* BufferAccess through access()
Buffers == { [access |-> b] : b \in BufferAccesses }

\* payloads D: a value of a type with its size in bytes
Payloads ==
    { [ty |-> "[u8; 64]", size_of |-> 64],
      [ty |-> "[u8; 128]", size_of |-> 128] }

\* the command buffer builders, by native recording handle
Builders == {1, 2}

----------------------------------------------------------------------------
(* Results *)

Ok(v) == [ok |-> TRUE, value |-> v]

Err(e) == [ok |-> FALSE, err |-> e]

CmdUpdateBufferError == {"BufferMissingUsage", "WrongAlignment", "DataTooLarge"}

----------------------------------------------------------------------------
(* Collaborator interfaces *)

\* Buffer::access
access(buffer) == buffer.access

\* BufferAccess::size
size(buffer) == buffer.size

\* BufferAccess::inner
inner(buffer) == buffer.inner

----------------------------------------------------------------------------
(* CmdUpdateBuffer *)

\* The struct literal at the end of unchecked_type.  The casts
\* `as vk::DeviceSize` widen usize to u64 and keep the value.
CmdUpdateBuffer(b, h, o, s, d) ==
    [buffer |-> b, buffer_handle |-> h, offset |-> o, size |-> s, data |-> d]

\* Variants of the constructors and of add with one slip each; the claims
\* below are checked to tell each of them from the code.

\* the size cap is not checked
unchecked_type_no_cap(buffer, data) ==
    LET sz == size(buffer)
        bi == inner(buffer)
    IN  IF ~bi.buffer.usage_transfer_dest
          THEN Err("BufferMissingUsage")
        ELSE IF bi.offset % Alignment # 0
          THEN Err("WrongAlignment")
        ELSE IF sz % Alignment # 0
          THEN Err("WrongAlignment")
        ELSE Ok(CmdUpdateBuffer(buffer, bi.buffer.internal_object,
                                bi.offset, sz, data))

\* the offset is checked before the usage flag
unchecked_type_offset_first(buffer, data) ==
    LET sz == size(buffer)
        bi == inner(buffer)
    IN  IF bi.offset % Alignment # 0
          THEN Err("WrongAlignment")
        ELSE IF ~bi.buffer.usage_transfer_dest
          THEN Err("BufferMissingUsage")
        ELSE IF sz % Alignment # 0
          THEN Err("WrongAlignment")
        ELSE IF sz > MaxUpdateSize
          THEN Err("DataTooLarge")
        ELSE Ok(CmdUpdateBuffer(buffer, bi.buffer.internal_object,
                                bi.offset, sz, data))

\* the cap is exclusive: size >= 65536 is refused
unchecked_type_exclusive_cap(buffer, data) ==
    LET sz == size(buffer)
        bi == inner(buffer)
    IN  IF ~bi.buffer.usage_transfer_dest
          THEN Err("BufferMissingUsage")
        ELSE IF bi.offset % Alignment # 0
          THEN Err("WrongAlignment")
        ELSE IF sz % Alignment # 0
          THEN Err("WrongAlignment")
        ELSE IF sz >= MaxUpdateSize
          THEN Err("DataTooLarge")
        ELSE Ok(CmdUpdateBuffer(buffer, bi.buffer.internal_object,
                                bi.offset, sz, data))

\* the cap is checked before the offset
unchecked_type_cap_before_offset(buffer, data) ==
    LET sz == size(buffer)
        bi == inner(buffer)
    IN  IF ~bi.buffer.usage_transfer_dest
          THEN Err("BufferMissingUsage")
        ELSE IF sz > MaxUpdateSize
          THEN Err("DataTooLarge")
        ELSE IF bi.offset % Alignment # 0
          THEN Err("WrongAlignment")
        ELSE IF sz % Alignment # 0
          THEN Err("WrongAlignment")
        ELSE Ok(CmdUpdateBuffer(buffer, bi.buffer.internal_object,
                                bi.offset, sz, data))

\* the cap is checked before the size's alignment
unchecked_type_cap_before_size(buffer, data) ==
    LET sz == size(buffer)
        bi == inner(buffer)
    IN  IF ~bi.buffer.usage_transfer_dest
          THEN Err("BufferMissingUsage")
        ELSE IF bi.offset % Alignment # 0
          THEN Err("WrongAlignment")
        ELSE IF sz > MaxUpdateSize
          THEN Err("DataTooLarge")
        ELSE IF sz % Alignment # 0
          THEN Err("WrongAlignment")
        ELSE Ok(CmdUpdateBuffer(buffer, bi.buffer.internal_object,
                                bi.offset, sz, data))

\* new builds the command itself and checks only the usage flag
new_own_checks(buffer, data) ==
    LET b == access(buffer)
        bi == inner(b)
    IN  IF ~bi.buffer.usage_transfer_dest
          THEN Err("BufferMissingUsage")
        ELSE Ok(CmdUpdateBuffer(b, bi.buffer.internal_object,
                                bi.offset, size(b), data))

unchecked_type(buffer, data) ==
    LET sz == size(buffer)
        bi == inner(buffer)
    IN  IF ~bi.buffer.usage_transfer_dest
          THEN Err("BufferMissingUsage")
        ELSE IF bi.offset % Alignment # 0
          THEN Err("WrongAlignment")
        ELSE IF sz % Alignment # 0
          THEN Err("WrongAlignment")
        ELSE IF sz > MaxUpdateSize
          THEN Err("DataTooLarge")
        ELSE Ok(CmdUpdateBuffer(buffer, bi.buffer.internal_object,
                                bi.offset, sz, data))

from_access(buffer, data) == unchecked_type(buffer, data)

new(buffer, data) == unchecked_type(access(buffer), data)

\* CmdUpdateBuffer::buffer
buffer(self) == self.buffer

----------------------------------------------------------------------------
(* AddCommand<&CmdUpdateBuffer> for UnsafeCommandBufferBuilder *)

\* the native call vk.CmdUpdateBuffer(cmd, dstBuffer, dstOffset, dataSize,
\* pData), as the record it appends to the stream of command buffer `cmd`
vkCmdUpdateBuffer(dstBuffer, dstOffset, dataSize, pData) ==
    [dstBuffer |-> dstBuffer, dstOffset |-> dstOffset,
     dataSize |-> dataSize, pData |-> pData]

\* the call is recorded ahead of the earlier ones
add_prepend(self, command) ==
    Ok(<<vkCmdUpdateBuffer(command.buffer_handle, command.offset,
                           command.size, command.data)>> \o self)

\* add refuses a command whose payload and buffer sizes differ
add_validating(self, command) ==
    IF command.data.size_of # command.size
      THEN Err("CommandAddError")
      ELSE Ok(Append(self, vkCmdUpdateBuffer(command.buffer_handle,
                                             command.offset, command.size,
                                             command.data)))

\* add(self, command): `self` is the builder's stream; the result is
\* Ok with the builder after the call
add(self, command) ==
    Ok(Append(self, vkCmdUpdateBuffer(command.buffer_handle, command.offset,
                                      command.size, command.data)))

----------------------------------------------------------------------------
(* State machine *)

NoArgs == [ctor |-> "none"]

Init ==
    /\ cmds = <<>>
    /\ streams = [b \in Builders |-> <<>>]
    /\ ret = [op |-> "none"]
    /\ args = NoArgs

\* what a constructor call leaves behind: the command, if any, now exists
Constructed(result) ==
    /\ cmds' = IF result.ok THEN Append(cmds, result.value) ELSE cmds
    /\ ret' = IF result.ok
                THEN [op |-> "construct", ok |-> TRUE]
                ELSE [op |-> "construct", ok |-> FALSE, err |-> result.err]
    /\ UNCHANGED <<streams, args>>

New(b, d) ==
    /\ Len(cmds) < MaxCmds
    /\ Constructed(new(b, d))

FromAccess(b, d) ==
    /\ Len(cmds) < MaxCmds
    /\ Constructed(from_access(b, d))

UncheckedType(b, d) ==
    /\ Len(cmds) < MaxCmds
    /\ Constructed(unchecked_type(b, d))

BufferAccessor(i) ==
    /\ ret' = [op |-> "buffer", value |-> buffer(cmds[i])]
    /\ UNCHANGED <<cmds, streams, args>>

RECURSIVE SumLen(_, _)
SumLen(f, S) ==
    IF S = {} THEN 0
    ELSE LET x == CHOOSE y \in S : TRUE
         IN  Len(f[x]) + SumLen(f, S \ {x})

Recorded == SumLen(streams, Builders)

\* add takes the command by value: it is gone after the call
AddConsuming(b, i) ==
    /\ Recorded < MaxRecords
    /\ LET r == add(streams[b], cmds[i])
       IN  /\ streams' = [streams EXCEPT ![b] = r.value]
           /\ ret' = [op |-> "add", ok |-> TRUE, builder |-> b, command |-> i]
    /\ cmds' = [k \in 1..(Len(cmds) - 1) |->
                 IF k < i THEN cmds[k] ELSE cmds[k + 1]]
    /\ UNCHANGED args

Add(b, i) ==
    /\ Recorded < MaxRecords
    /\ LET r == add(streams[b], cmds[i])
       IN  /\ streams' = IF r.ok THEN [streams EXCEPT ![b] = r.value]
                         ELSE streams
           /\ ret' = IF r.ok
                       THEN [op |-> "add", ok |-> TRUE, builder |-> b, command |-> i]
                       ELSE [op |-> "add", ok |-> FALSE, err |-> r.err,
                             builder |-> b, command |-> i]
    /\ UNCHANGED <<cmds, args>>

Next ==
    \/ \E b \in Buffers, d \in Payloads : New(b, d)
    \/ \E b \in BufferAccesses, d \in Payloads : FromAccess(b, d)
    \/ \E b \in BufferAccesses, d \in Payloads : UncheckedType(b, d)
    \/ \E i \in 1..Len(cmds) : BufferAccessor(i)
    \/ \E b \in Builders, i \in 1..Len(cmds) : Add(b, i)

Spec == Init /\ [][Next]_vars

----------------------------------------------------------------------------
(* One constructor call on arguments drawn from the whole input space *)

CtorInit ==
    /\ cmds = <<>>
    /\ streams = [b \in Builders |-> <<>>]
    /\ ret = [op |-> "none"]
    /\ \E d \in Payloads :
         \/ \E b \in Buffers : args = [ctor |-> "new", buffer |-> b, data |-> d]
         \/ \E b \in BufferAccesses :
              args \in { [ctor |-> c, buffer |-> b, data |-> d] :
                           c \in {"from_access", "unchecked_type"} }

CallNew ==
    /\ ret.op = "none"
    /\ args.ctor = "new"
    /\ New(args.buffer, args.data)

CallFromAccess ==
    /\ ret.op = "none"
    /\ args.ctor = "from_access"
    /\ FromAccess(args.buffer, args.data)

CallUncheckedType ==
    /\ ret.op = "none"
    /\ args.ctor = "unchecked_type"
    /\ UncheckedType(args.buffer, args.data)

CtorNext ==
    \/ CallNew
    \/ CallFromAccess
    \/ CallUncheckedType

CtorSpec == CtorInit /\ [][CtorNext]_vars

----------------------------------------------------------------------------
(* What the claims speak of *)

Min(a, b) == IF a <= b THEN a ELSE b

\* the BufferAccess the constructor call under test validates
ArgAccess == IF args.ctor = "new" THEN access(args.buffer) ELSE args.buffer

ArgUsage == inner(ArgAccess).buffer.usage_transfer_dest

ArgOffset == inner(ArgAccess).offset

ArgSize == size(ArgAccess)

\* the constructor call under test has returned
Returned == args.ctor # "none" /\ ret.op = "construct"

Failed(e) == ~ret.ok /\ ret.err = e /\ cmds = <<>>

\* the invariants of a command
ValidCommand(c) ==
    /\ inner(c.buffer).buffer.usage_transfer_dest
    /\ c.offset % 4 = 0
    /\ c.size % 4 = 0
    /\ c.size <= 65536

\* the inner buffer a raw handle names has the transfer-destination usage
HandleUsage(h) ==
    \E ib \in InnerBuffers : ib.internal_object = h /\ ib.usage_transfer_dest

\* the native call that carries a command's captured fields
RecordOf(c) ==
    [dstBuffer |-> c.buffer_handle, dstOffset |-> c.offset,
     dataSize |-> c.size, pData |-> c.data]

\* C1: every command that exists, whichever constructor made it, has a
\* buffer with the transfer-destination usage, an offset and a size that are
\* multiples of 4 and a size of at most 65536; and the constructor called
\* (new, from_access or unchecked_type) returns what unchecked_type returns
\* for the same buffer and payload: the same error, or the same fields.
C1_ConstructorsValidateAlike ==
    /\ \A i \in 1..Len(cmds) : ValidCommand(cmds[i])
    /\ Returned =>
         LET r == unchecked_type(ArgAccess, args.data)
         IN  /\ ret.ok = r.ok
             /\ ret.ok => cmds = <<r.value>>
             /\ ~ret.ok => ret.err = r.err /\ cmds = <<>>

C1_Witness ==
    /\ Returned /\ args.ctor = "new" /\ ret.ok
    /\ cmds = << [buffer |-> access(args.buffer), buffer_handle |-> 1,
                  offset |-> 4, size |-> 65536, data |-> args.data] >>

\* C3: a buffer without the transfer-destination usage is refused with
\* BufferMissingUsage whatever its offset, its size and the payload.
C3_UsageCheckedFirst ==
    (Returned /\ ~ArgUsage) => Failed("BufferMissingUsage")

C3_Witness ==
    /\ Returned /\ ~ArgUsage
    /\ ArgOffset = 2 /\ ArgSize = 65537
    /\ Failed("BufferMissingUsage")

\* C4: with the usage set and offset and size multiples of 4, a size above
\* 65536 is refused with DataTooLarge and a size of exactly 65536 succeeds.
C4_CapInclusive ==
    (Returned /\ ArgUsage /\ ArgOffset % 4 = 0 /\ ArgSize % 4 = 0) =>
        /\ ArgSize > 65536 => Failed("DataTooLarge")
        /\ ArgSize = 65536 => ret.ok /\ Len(cmds) = 1 /\ cmds[1].size = 65536

C4_Witness ==
    /\ Returned /\ ArgUsage /\ ArgOffset = 4 /\ ArgSize = 65536
    /\ ret.ok /\ Len(cmds) = 1

\* C5: with the usage set, an offset that is not a multiple of 4 is refused
\* with WrongAlignment whatever the size, an oversized buffer included.
C5_OffsetBeforeSize ==
    (Returned /\ ArgUsage /\ ArgOffset % 4 # 0) => Failed("WrongAlignment")

C5_Witness ==
    /\ Returned /\ ArgUsage /\ ArgOffset = 2 /\ ArgSize = 65540
    /\ Failed("WrongAlignment")

\* C6: with the usage set and an aligned offset, a size that is not a
\* multiple of 4 is refused with WrongAlignment, above the cap too.
C6_SizeAlignmentBeforeCap ==
    (Returned /\ ArgUsage /\ ArgOffset % 4 = 0 /\ ArgSize % 4 # 0) =>
        Failed("WrongAlignment")

C6_Witness ==
    /\ Returned /\ ArgUsage /\ ArgOffset = 0 /\ ArgSize = 65537
    /\ Failed("WrongAlignment")

\* C2: every native call recorded in a builder's stream has an offset and a
\* size that are multiples of 4, a size of at most 65536 and a target with
\* the transfer-destination usage, and carries the fields of a command that
\* exists: a failed construction leaves no command and so no record.
C2_RecordsValid ==
    /\ [](\A b \in Builders : \A k \in 1..Len(streams[b]) :
            LET r == streams[b][k]
            IN  /\ r.dstOffset % 4 = 0
                /\ r.dataSize % 4 = 0
                /\ r.dataSize <= 65536
                /\ HandleUsage(r.dstBuffer)
                /\ \E i \in 1..Len(cmds) : r = RecordOf(cmds[i]))
    /\ [][ (ret'.op = "construct" /\ ~ret'.ok) =>
             (cmds' = cmds /\ streams' = streams) ]_vars

C2_Witness ==
    /\ ret.op = "construct" /\ ~ret.ok /\ ret.err = "DataTooLarge"
    /\ Len(cmds) = 1
    /\ Len(streams[1]) = 1 /\ Len(streams[2]) = 1
    /\ streams[1][1].dstOffset = 4 /\ streams[1][1].dataSize = 65536

\* C7: the native call recorded by an injection covers
\* min(payload byte length, buffer byte size) bytes.
C7_IntersectionWritten ==
    (ret.op = "add" /\ ret.ok) =>
        LET c == cmds[ret.command]
            s == streams[ret.builder]
        IN  s[Len(s)].dataSize = Min(c.data.size_of, size(c.buffer))

\* C8: an injection appends exactly one record to the builder's stream,
\* with the command's captured handle, offset, size and payload, returns
\* that builder, and changes no other builder's stream.
C8_AddAppendsOne ==
    [][ ret'.op = "add" =>
          /\ ret'.ok
          /\ ret'.builder \in Builders
          /\ ret'.command \in 1..Len(cmds)
          /\ streams' = [streams EXCEPT ![ret'.builder] =
                           Append(@, RecordOf(cmds[ret'.command]))]
      ]_vars

C8_Witness ==
    /\ ret.op = "add" /\ ret.ok /\ ret.builder = 2 /\ ret.command = 1
    /\ Len(cmds) = 2 /\ cmds[1] # cmds[2]
    /\ streams[2] = <<RecordOf(cmds[2]), RecordOf(cmds[1])>>
    /\ streams[1] = <<>>

\* C9: the fields of a command never change once it exists: no call, the
\* buffer() accessor and any number of injections included, removes or
\* alters a command, and what an injection hands to the native call is
\* what the command's buffer reported when it was validated.
C9_CommandImmutable ==
    [][ /\ Len(cmds') >= Len(cmds)
        /\ \A i \in 1..Len(cmds) : cmds'[i] = cmds[i]
        /\ ret'.op = "buffer" =>
             \E i \in 1..Len(cmds) : ret'.value = cmds[i].buffer
        /\ ret'.op = "add" =>
             LET c == cmds'[ret'.command]
                 s == streams'[ret'.builder]
             IN  /\ s[Len(s)].dstBuffer = inner(c.buffer).buffer.internal_object
                 /\ s[Len(s)].dstOffset = inner(c.buffer).offset
                 /\ s[Len(s)].dataSize = size(c.buffer)
      ]_vars

C9_Witness ==
    /\ ret.op = "add" /\ Len(cmds) = 1
    /\ streams[1] = <<RecordOf(cmds[1]), RecordOf(cmds[1])>>
    /\ cmds[1].offset = 4

\* C10: add has no error path: it returns Ok with the builder for every
\* builder, whatever was recorded in it before, and every command.
C10_AddInfallible ==
    /\ ret.op = "add" => ret.ok
    /\ \A b \in Builders : \A i \in 1..Len(cmds) :
         LET r == add(streams[b], cmds[i])
         IN  r.ok /\ Len(r.value) = Len(streams[b]) + 1

C10_Witness ==
    /\ ret.op = "add" /\ ret.ok
    /\ Len(streams[ret.builder]) = 2
    /\ cmds[ret.command].data.size_of # cmds[ret.command].size

====
